---- MODULE Spec2Model ----
(***************************************************************************)
(* A model of myqupy: the checker registry and the (stubbed) mypy plugin   *)
(* of src/myqupy/plugin.py, and the pytest harness of tests/conftest.py    *)
(* that routes marked tests through mypy.                                  *)
(*                                                                         *)
(* Three specifications share the variables:                               *)
(*   Spec          module load of plugin.py, then call-site analyses       *)
(*   SpecRegistry  arbitrary registrations through function_checker        *)
(*   SpecHarness   collection, call and report of one pytest item          *)
(***************************************************************************)
EXTENDS Integers, Sequences, FiniteSets, TLC

VARIABLES
    FUNCTION_CHECKERS,  \* plugin.py:41, the module-level dict name -> checker
    phase,              \* "loading" while plugin.py's body runs, then "loaded"
    regcall,            \* the last call of function_checker(...)(f), or NoCall
    lastWriter,         \* history: per name, the checker of its latest registration
    plugin_ret,         \* what the last call of plugin(version) returned
    threads,            \* per analysis thread, the call site it is analysing
    markers,            \* the item's markers, in iter_markers order
    source,             \* what inspect.getsource(item.obj) gives: lines or an error
    stash,              \* item.stash, a dict over the five StashKeys
    hpc,                \* where pytest is in the item's protocol
    call,               \* the CallInfo of the phase just run
    report,             \* what pytest_runtest_makereport returned last
    mypy_result,        \* what mypy.api.run returned (stdout, exit_status)
    trace               \* history: what the hook pytest_runtest_call did

vars == << FUNCTION_CHECKERS, phase, regcall, lastWriter, plugin_ret, threads,
           markers, source, stash, hpc, call, report, mypy_result, trace >>

pluginVars == << FUNCTION_CHECKERS, phase, regcall, lastWriter, plugin_ret, threads >>
harnessVars == << markers, source, stash, hpc, call, report, mypy_result, trace >>

(***************************************************************************)
(* Values                                                                  *)
(***************************************************************************)
\* Python's None
None == "None"

\* the longest *more_names tuple a registration is given
MaxMore == 2

\* fully-qualified callable names the host asks about or a client registers
Names == {"list", "builtins.int.__add__", "builtins.int.__mul__"}

\* values of FunctionCheckType = Optional[Callable[[FunctionContext], Type]]
Checkers == {"check_add_function", "check_mul_function", None}

\* unit metadata of an operand: None for a plain (unannotated) operand
Units == {None, "meter", "second"}
Types == {"int", "float"}
Versions == {"1.8.0", "1.9.0"}
Threads == {"t1", "t2"}

\* FunctionContext: the operands' unit annotations and the default return type
Contexts == [arg_units : Units \X Units, default_return_type : Types]

Range(s) == {s[i] : i \in 1..Len(s)}
SeqsUpTo(S, n) == UNION {[1..k -> S] : k \in 0..n}

NoCall == [kind |-> "none"]
Unregistered == "<unregistered>"
EmptyDict == [n \in {} |-> None]

(***************************************************************************)
(* plugin.py: the registry                                                 *)
(***************************************************************************)
\* d[k] = v on a Python dict
DictSet(d, k, v) == [n \in (DOMAIN d) \cup {k} |-> IF n = k THEN v ELSE d[n]]

\* d.get(k, default)
DictGet(d, k, default) == IF k \in DOMAIN d THEN d[k] ELSE default

\* the loop  for name in more_names: FUNCTION_CHECKERS[name] = f
RECURSIVE register_more(_, _, _)
register_more(reg, more_names, f) ==
    IF more_names = << >> THEN reg
    ELSE register_more(DictSet(reg, Head(more_names), f), Tail(more_names), f)

\* mutant: the loop stops one alias short
RECURSIVE register_more_short(_, _, _)
register_more_short(reg, more_names, f) ==
    IF Len(more_names) <= 1 THEN reg
    ELSE register_more_short(DictSet(reg, Head(more_names), f), Tail(more_names), f)

function_checker_short(reg, full_name, more_names, f) ==
    [reg |-> register_more_short(DictSet(reg, full_name, f), more_names, f),
     ret |-> f]

\* mutant: setdefault instead of assignment, so the first registration wins
RECURSIVE register_more_first(_, _, _)
register_more_first(reg, more_names, f) ==
    IF more_names = << >> THEN reg
    ELSE register_more_first(
            DictSet(reg, Head(more_names), DictGet(reg, Head(more_names), f)),
            Tail(more_names), f)

function_checker_first(reg, full_name, more_names, f) ==
    [reg |-> register_more_first(
                DictSet(reg, full_name, DictGet(reg, full_name, f)), more_names, f),
     ret |-> f]

\* mutant: only the aliases are registered, the assignment for full_name is lost
function_checker_aliases(reg, full_name, more_names, f) ==
    [reg |-> register_more(reg, more_names, f),
     ret |-> f]

\* function_checker(full_name, *more_names)(f): the registry afterwards and
\* the value the decorator returns
function_checker(reg, full_name, more_names, f) ==
    [reg |-> register_more(DictSet(reg, full_name, f), more_names, f),
     ret |-> f]

\* a registry lookup, FUNCTION_CHECKERS.get(fullname, None)
lookup(reg, fullname) == DictGet(reg, fullname, None)

(***************************************************************************)
(* plugin.py: the plugin and its one checker                               *)
(***************************************************************************)
\* mutant: the lookup the source has commented out
get_function_hook_enabled(fullname) == lookup(FUNCTION_CHECKERS, fullname)

\* QuantityPlugin.get_function_hook(fullname)
get_function_hook(fullname) == None

\* mutant: a missing unit is treated as a unit of its own and reported
check_add_function_strict(ctx) ==
    [type |-> ctx.default_return_type,
     diags |-> IF ctx.arg_units[1] # ctx.arg_units[2]
               THEN << "unit mismatch" >> ELSE << >>,
     raised |-> FALSE]

\* mutant: the checker returns nothing instead of the default return type
check_add_function_none(ctx) ==
    [type |-> None, diags |-> << >>, raised |-> FALSE]

\* check_add_function(ctx): the type returned, the diagnostics reported
\* through ctx.api, and whether it raised
check_add_function(ctx) ==
    [type |-> ctx.default_return_type, diags |-> << >>, raised |-> FALSE]

\* plugin(_)
plugin(version) == "QuantityPlugin"

\* The host's use of a hook (mypy's protocol): without a hook the call keeps
\* its default return type, with one the hook decides.
host_apply(hook, ctx) ==
    IF hook = None
    THEN [type |-> ctx.default_return_type, diags |-> << >>, raised |-> FALSE]
    ELSE IF hook = "check_add_function"
    THEN check_add_function(ctx)
    ELSE [type |-> None, diags |-> << >>, raised |-> TRUE]

\* terminal state of a call-site analysis
outcome_of(result) ==
    IF result.raised THEN "fatal"
    ELSE IF result.diags # << >> THEN "diagnostic_recovered"
    ELSE "success"

IdleThread ==
    [pc |-> "idle", via |-> None, fullname |-> None, ctx |-> None,
     hook |-> None, invoked |-> None, result |-> None]

InitPlugin ==
    /\ FUNCTION_CHECKERS = EmptyDict
    /\ phase = "loading"
    /\ regcall = NoCall
    /\ lastWriter = [n \in Names |-> Unregistered]
    /\ plugin_ret = None
    /\ threads = [t \in Threads |-> IdleThread]

\* plugin.py:86, @function_checker('list') applied to check_add_function as
\* the module body runs
LoadModule ==
    /\ phase = "loading"
    /\ LET r == function_checker(FUNCTION_CHECKERS, "list", << >>, "check_add_function")
       IN /\ FUNCTION_CHECKERS' = r.reg
          /\ regcall' = [kind |-> "register", full_name |-> "list", more_names |-> << >>,
                         f |-> "check_add_function", before |-> FUNCTION_CHECKERS,
                         ret |-> r.ret]
    /\ lastWriter' = [lastWriter EXCEPT !["list"] = "check_add_function"]
    /\ phase' = "loaded"
    /\ UNCHANGED << plugin_ret, threads >>

\* the host loads the plugin: plugin(version)
PluginEntry(version) ==
    /\ phase = "loaded"
    /\ plugin_ret' = plugin(version)
    /\ UNCHANGED << FUNCTION_CHECKERS, phase, regcall, lastWriter, threads >>

\* 4.4 step 1: the host meets a call of fullname with context ctx
Dispatch(t, fullname, ctx) ==
    /\ phase = "loaded"
    /\ threads[t].pc \in {"idle", "done"}
    /\ threads' = [threads EXCEPT ![t] =
            [IdleThread EXCEPT !.pc = "dispatched", !.via = "hook",
                               !.fullname = fullname, !.ctx = ctx]]
    /\ UNCHANGED << FUNCTION_CHECKERS, phase, regcall, lastWriter, plugin_ret >>

\* 4.4 step 2: the host asks QuantityPlugin.get_function_hook(fullname)
GetFunctionHook(t) ==
    /\ threads[t].pc = "dispatched"
    /\ threads' = [threads EXCEPT ![t].pc = "looked_up",
                                  ![t].hook = get_function_hook(threads[t].fullname)]
    /\ UNCHANGED << FUNCTION_CHECKERS, phase, regcall, lastWriter, plugin_ret >>

\* 4.4 steps 3-5: the host types the call, through the hook if there is one
ApplyHook(t) ==
    /\ threads[t].pc = "looked_up"
    /\ threads' = [threads EXCEPT ![t].pc = "done",
                                  ![t].invoked = threads[t].hook,
                                  ![t].result = host_apply(threads[t].hook, threads[t].ctx)]
    /\ UNCHANGED << FUNCTION_CHECKERS, phase, regcall, lastWriter, plugin_ret >>

\* check_add_function(ctx) called directly, as any importer of the module can
CheckAddFunction(t, ctx) ==
    /\ phase = "loaded"
    /\ threads[t].pc \in {"idle", "done"}
    /\ threads' = [threads EXCEPT ![t] =
            [IdleThread EXCEPT !.pc = "done", !.via = "direct", !.ctx = ctx,
                               !.invoked = "check_add_function",
                               !.result = check_add_function(ctx)]]
    /\ UNCHANGED << FUNCTION_CHECKERS, phase, regcall, lastWriter, plugin_ret >>

\* a client module registers a checker: function_checker(full_name, *more_names)(f)
Register(full_name, more_names, f) ==
    /\ LET r == function_checker(FUNCTION_CHECKERS, full_name, more_names, f)
       IN /\ FUNCTION_CHECKERS' = r.reg
          /\ regcall' = [kind |-> "register", full_name |-> full_name,
                         more_names |-> more_names, f |-> f,
                         before |-> FUNCTION_CHECKERS, ret |-> r.ret]
    /\ lastWriter' = [n \in Names |->
            IF n = full_name \/ n \in Range(more_names) THEN f ELSE lastWriter[n]]
    /\ UNCHANGED << phase, plugin_ret, threads >>

(***************************************************************************)
(* tests/conftest.py: the pytest harness                                   *)
(***************************************************************************)
\* the longest marker list of an item
MaxMarkers == 2
\* the longest stdout mypy prints, in characters
MaxOut == 2

Alphabet == {"a", "b"}
\* what mypy prints on stdout
Stdouts == SeqsUpTo(Alphabet, MaxOut)
\* the exit statuses of mypy.api.run
ExitStatuses == {0, 1, 2}
\* marker names found on items; test_mypy.py:8 uses mypy_testing
MarkerNames == {"mypy", "mypy_xfail", "mypy_testing"}
\* positional arguments of a marker: the messages expected in mypy's stdout
MarkerArgs == { << >>, << <<"a">>, <<"b">> >>, << << >>, <<"b", "a">> >> }

\* Python values that end up in the argument list of mypy, tagged by type
PyStr(chars) == [t |-> "str", v |-> chars]
PyBool(b) == [t |-> "bool", v |-> b]
\* the source handed to mypy: '\n' followed by the lines joined with '\n'
PySource(lines) == [t |-> "source", v |-> lines]
\* a == b on these values
PyEq(a, b) == a.t = b.t /\ a.v = b.v

\* keyword arguments of a marker, in the order of marker.kwargs.items():
\* python_version/strict, two keys that give the same option, and a value
\* that reads like the option of a later key
MarkerKwargs ==
    { << [key |-> <<"p", "_", "v">>, value |-> PyStr(<<"3">>)],
         [key |-> <<"s">>, value |-> PyBool(TRUE)] >>,
      << [key |-> <<"p", "_", "v">>, value |-> PyStr(<<"3">>)],
         [key |-> <<"p", "-", "v">>, value |-> PyStr(<<"4">>)] >>,
      << [key |-> <<"p">>, value |-> PyStr(<<"-", "-", "s">>)],
         [key |-> <<"s">>, value |-> PyBool(TRUE)] >> }

Markers ==
    [name : MarkerNames, args : MarkerArgs, kwargs : { << >> }]
    \cup [name : {"mypy", "mypy_xfail"}, args : { << <<"a">> >> }, kwargs : MarkerKwargs]

\* Source text is kept line by line, each line the sequence of the
\* code points of its characters (100 101 102 32 is 'def '), so that every
\* whitespace character can be written.
\* The characters \s matches that a line of str.splitlines() can hold: tab,
\* U+001F, space, U+00A0, U+1680, U+2000..U+200A, U+202F, U+205F, U+3000
Whitespace == {9, 31, 32, 160, 5760, 8239, 8287, 12288} \cup (8192..8202)

\* 'def '
DefPrefix == <<100, 101, 102, 32>>

\* sources of test functions: a decorated function whose body is indented
\* with a space and a tab and has a deeper and two dedented lines; and a
\* method, whose def is indented
Sources ==
    {
      \* '@m', 'def t:', ' \tx', ' \t\xa0y', '\tz', ' w'
      << <<64, 109>>,
         <<100, 101, 102, 32, 116, 58>>,
         <<32, 9, 120>>,
         <<32, 9, 160, 121>>,
         <<9, 122>>,
         <<32, 119>> >>,
      \* ' def t:', '  x'
      << <<32, 100, 101, 102, 32, 116, 58>>,
         <<32, 32, 120>> >> }
\* what inspect.getsource(item.obj) does: it returns the source or raises
GetSource == [raised : {None}, lines : Sources] \cup [raised : {"OSError"}, lines : { << >> }]

\* how the test body ends when run as plain Python
RuntestResults == {None, "AssertionError"}

\* msg in stdout, on Python strings
IsSubstring(msg, s) ==
    \E i \in 0..(Len(s) - Len(msg)) : SubSeq(s, i + 1, i + Len(msg)) = msg

\* item.iter_markers(name=name)
iter_markers(ms, name) == SelectSeq(ms, LAMBDA m : m.name = name)

\* s.startswith(prefix)
StartsWith(line, prefix) ==
    Len(line) >= Len(prefix) /\ SubSeq(line, 1, Len(prefix)) = prefix

\* the length of group 1 of re.match(r'^(\s*)(.*)$', line)
RECURSIVE LeadingSpace(_)
LeadingSpace(line) ==
    IF line # << >> /\ Head(line) \in Whitespace
    THEN 1 + LeadingSpace(Tail(line)) ELSE 0

\* the loop of prepare_source over source.splitlines(); indent is << >> for
\* None, until the first line after the def has been seen, then << indent >>
RECURSIVE prepare_lines(_, _, _, _)
prepare_lines(lines, hide, indent, result) ==
    IF lines = << >> THEN result
    ELSE LET line == Head(lines)
         IN IF hide
            THEN prepare_lines(Tail(lines), ~StartsWith(line, DefPrefix),
                               indent, result)
            ELSE IF indent = << >>
            THEN LET n == LeadingSpace(line)
                 IN prepare_lines(Tail(lines), hide, << SubSeq(line, 1, n) >>,
                                  Append(result, SubSeq(line, n + 1, Len(line))))
            ELSE IF StartsWith(line, indent[1])
            THEN prepare_lines(Tail(lines), hide, indent,
                               Append(result, SubSeq(line, Len(indent[1]) + 1, Len(line))))
            ELSE prepare_lines(Tail(lines), hide, indent, Append(result, line))

\* prepare_source(item): the lines of the test body; '\n'.join of no line
\* is the empty string, as is that of one empty line
prepare_source(src) ==
    LET result == prepare_lines(src, TRUE, << >>, << >>)
    IN IF result = << >> THEN << << >> >> ELSE result

\* key.replace('_', '-')
replace_underscores(key) == [i \in 1..Len(key) |-> IF key[i] = "_" THEN "-" ELSE key[i]]

\* arg_name in args, on a Python list
PyIn(x, list) == \E i \in 1..Len(list) : PyEq(list[i], x)

\* the loop of init_mypy over marker.kwargs.items()
RECURSIVE kwargs_args(_, _)
kwargs_args(args, kwargs) ==
    IF kwargs = << >> THEN args
    ELSE LET arg_name == PyStr(<<"-", "-">> \o replace_underscores(Head(kwargs).key))
         IN IF ~PyIn(arg_name, args)
            THEN kwargs_args(args \o << arg_name, Head(kwargs).value >>, Tail(kwargs))
            ELSE kwargs_args(args, Tail(kwargs))

\* init_mypy(item, marker): the stash afterwards, and the exception raised
\* when the source of the test cannot be read
init_mypy(st, marker, src) ==
    IF src.raised # None
    THEN [stash |-> st, raised |-> src.raised]
    ELSE [stash |-> DictSet(DictSet(st, "args",
                        kwargs_args(<< >>, marker.kwargs)
                            \o << PyStr(<<"-", "c">>), PySource(prepare_source(src.lines)) >>),
                    "expmsg", marker.args),
          raised |-> None]

\* for marker in item.iter_markers(name=...): stash[expect] = status; init_mypy(...)
RECURSIVE collect_markers(_, _, _, _)
collect_markers(st, ms, status, src) ==
    IF ms = << >> THEN [stash |-> st, raised |-> None]
    ELSE LET r == init_mypy(DictSet(st, "expect", status), Head(ms), src)
         IN IF r.raised # None THEN r
            ELSE collect_markers(r.stash, Tail(ms), status, src)

\* the body of pytest_collection_modifyitems for one item
pytest_collection_modifyitems(st, ms, src) ==
    LET r == collect_markers(st, iter_markers(ms, "mypy"), 0, src)
    IN IF r.raised # None THEN r
       ELSE collect_markers(r.stash, iter_markers(ms, "mypy_xfail"), 1, src)

\* the loop of run_mypy over the expected messages, with its break
RECURSIVE check_messages(_, _, _, _)
check_messages(st, msgs, stdout, examined) ==
    IF msgs = << >> THEN [stash |-> st, raised |-> None, examined |-> examined]
    ELSE IF ~IsSubstring(Head(msgs), stdout)
    THEN [stash |-> DictSet(DictSet(st, "fail", TRUE), "msg",
                        [kind |-> "message missing", msg |-> Head(msgs),
                         stdout |-> stdout]),
          raised |-> None, examined |-> examined + 1]
    ELSE check_messages(st, Tail(msgs), stdout, examined + 1)

\* mutant: the exit status 2 is not told apart from an ordinary mismatch
run_mypy_nopanic(st, stdout, exit_status) ==
    LET s0 == DictSet(st, "fail", FALSE)
    IN IF exit_status # s0["expect"]
       THEN [stash |-> DictSet(DictSet(s0, "fail", TRUE), "msg",
                        [kind |-> IF exit_status = 1 THEN "failed unexpectedly"
                                  ELSE "should have failed",
                         stdout |-> stdout]),
             raised |-> None, examined |-> 0]
       ELSE check_messages(s0, DictGet(s0, "expmsg", << >>), stdout, 0)

\* run_mypy(item), given what mypy.api.run returns: the stash afterwards, the
\* exception raised if any, and how many expected messages were looked for
run_mypy(st, stdout, exit_status) ==
    LET s0 == DictSet(st, "fail", FALSE)
    IN IF exit_status = 2
       THEN [stash |-> s0, raised |-> "UsageError", examined |-> 0]
       ELSE IF exit_status # s0["expect"]
       THEN [stash |-> DictSet(DictSet(s0, "fail", TRUE), "msg",
                        [kind |-> IF exit_status = 1 THEN "failed unexpectedly"
                                  ELSE "should have failed",
                         stdout |-> stdout]),
             raised |-> None, examined |-> 0]
       ELSE check_messages(s0, DictGet(s0, "expmsg", << >>), stdout, 0)

\* mutant: the guard is <= 0, so an item expecting status 0 is run as a test
pytest_runtest_call_le(st, runtest, stdout, exit_status) ==
    IF DictGet(st, "expect", -1) <= 0
    THEN [stash |-> st, raised |-> runtest, examined |-> 0, ran |-> "runtest"]
    ELSE LET r == run_mypy(st, stdout, exit_status)
         IN [stash |-> r.stash, raised |-> r.raised, examined |-> r.examined,
             ran |-> "run_mypy"]

\* pytest_runtest_call(item), given how item.runtest() ends and what mypy returns
pytest_runtest_call(st, runtest, stdout, exit_status) ==
    IF DictGet(st, "expect", -1) < 0
    THEN [stash |-> st, raised |-> runtest, examined |-> 0, ran |-> "runtest"]
    ELSE LET r == run_mypy(st, stdout, exit_status)
         IN [stash |-> r.stash, raised |-> r.raised, examined |-> r.examined,
             ran |-> "run_mypy"]

NoReport == [kind |-> "none"]

\* pytest.TestReport.from_item_and_call(item, call)
from_item_and_call(c) ==
    [kind |-> "report", when |-> c.when,
     outcome |-> IF c.excinfo = None THEN "passed" ELSE "failed",
     longrepr |-> [kind |-> "excinfo", exc |-> c.excinfo]]

\* pytest_runtest_makereport(item, call)
pytest_runtest_makereport(st, c) ==
    IF c.when # "call" THEN NoReport
    ELSE IF DictGet(st, "fail", FALSE)
    THEN [from_item_and_call(c) EXCEPT
            !.outcome = "failed",
            !.longrepr = DictGet(st, "msg", [kind |-> "unknown mypy problem"])]
    ELSE from_item_and_call(c)

NoMypy == [kind |-> "none"]

InitHarness ==
    /\ markers \in SeqsUpTo(Markers, MaxMarkers)
    /\ source \in GetSource
    /\ stash = EmptyDict
    /\ hpc = "collect"
    /\ call = [when |-> None, excinfo |-> None]
    /\ report = NoReport
    /\ mypy_result = NoMypy
    /\ trace = [ran |-> None, examined |-> 0, builtin |-> FALSE]

\* pytest_collection_modifyitems(session, config, [item])
Collect ==
    /\ hpc = "collect"
    /\ LET r == pytest_collection_modifyitems(stash, markers, source)
       IN /\ stash' = r.stash
          /\ hpc' = IF r.raised = None THEN "setup" ELSE "collect_error"
    /\ UNCHANGED << markers, source, call, report, mypy_result, trace >>

\* pytest runs the setup or the teardown phase of the item
RunPhase(when) ==
    /\ hpc = when
    /\ when \in {"setup", "teardown"}
    /\ call' = [when |-> when, excinfo |-> None]
    /\ hpc' = "report"
    /\ UNCHANGED << markers, source, stash, report, mypy_result, trace >>

\* pytest's own implementation of the hook pytest_runtest_call, which runs
\* the test body: the exception item.runtest() raises, if any
builtin_runtest_call(runtest) == runtest

\* The hook pytest_runtest_call as pytest calls it for the call phase: the
\* implementation of conftest.py first, then, unless that one raised,
\* pytest's own; the hook is not a first-result hook, so a marked item's
\* body is run as well. runtest and runtest_again are how the first and
\* the second item.runtest() of the phase end.
call_runtest_hook(st, runtest, runtest_again, stdout, exit_status) ==
    LET r == pytest_runtest_call(st, runtest, stdout, exit_status)
        body == IF r.ran = "runtest" THEN runtest_again ELSE runtest
    IN [stash |-> r.stash, ran |-> r.ran, examined |-> r.examined,
        builtin |-> r.raised = None,
        raised |-> IF r.raised # None THEN r.raised
                   ELSE builtin_runtest_call(body)]

\* pytest runs the call phase: the hook pytest_runtest_call(item)
RunTestCall(runtest, runtest_again, stdout, exit_status) ==
    /\ hpc = "call"
    /\ LET r == call_runtest_hook(stash, runtest, runtest_again, stdout, exit_status)
       IN /\ stash' = r.stash
          /\ call' = [when |-> "call", excinfo |-> r.raised]
          /\ trace' = [ran |-> r.ran, examined |-> r.examined,
                       builtin |-> r.builtin]
          /\ mypy_result' = IF r.ran = "run_mypy"
                            THEN [kind |-> "ran", args |-> stash["args"],
                                  stdout |-> stdout,
                                  exit_status |-> exit_status]
                            ELSE NoMypy
    /\ hpc' = "report"
    /\ UNCHANGED << markers, source, report >>

\* pytest reports the phase just run: pytest_runtest_makereport(item, call)
MakeReport ==
    /\ hpc = "report"
    /\ report' = pytest_runtest_makereport(stash, call)
    /\ hpc' = CASE call.when = "setup" -> "call"
                [] call.when = "call" -> "teardown"
                [] call.when = "teardown" -> "done"
    /\ UNCHANGED << markers, source, stash, call, mypy_result, trace >>

(***************************************************************************)
(* Specifications                                                          *)
(***************************************************************************)
HarnessIdle ==
    /\ markers = << >>
    /\ source = [raised |-> "OSError", lines |-> << >>]
    /\ stash = EmptyDict
    /\ hpc = "collect"
    /\ call = [when |-> None, excinfo |-> None]
    /\ report = NoReport
    /\ mypy_result = NoMypy
    /\ trace = [ran |-> None, examined |-> 0, builtin |-> FALSE]

Init == InitPlugin /\ HarnessIdle

Next ==
    \/ LoadModule /\ UNCHANGED harnessVars
    \/ \E v \in Versions : PluginEntry(v) /\ UNCHANGED harnessVars
    \/ \E t \in Threads, n \in Names, c \in Contexts :
            Dispatch(t, n, c) /\ UNCHANGED harnessVars
    \/ \E t \in Threads : GetFunctionHook(t) /\ UNCHANGED harnessVars
    \/ \E t \in Threads : ApplyHook(t) /\ UNCHANGED harnessVars
    \/ \E t \in Threads, c \in Contexts :
            CheckAddFunction(t, c) /\ UNCHANGED harnessVars

Spec == Init /\ [][Next]_vars

NextRegistry ==
    \E n \in Names, more \in SeqsUpTo(Names, MaxMore), f \in Checkers :
        Register(n, more, f) /\ UNCHANGED harnessVars

SpecRegistry == Init /\ [][NextRegistry]_vars

InitH == InitPlugin /\ InitHarness

NextHarness ==
    \/ Collect /\ UNCHANGED pluginVars
    \/ \E w \in {"setup", "teardown"} : RunPhase(w) /\ UNCHANGED pluginVars
    \/ \E r \in RuntestResults, r2 \in RuntestResults, o \in Stdouts, e \in ExitStatuses :
            RunTestCall(r, r2, o, e) /\ UNCHANGED pluginVars
    \/ MakeReport /\ UNCHANGED pluginVars

SpecHarness == InitH /\ [][NextHarness]_vars

(***************************************************************************)
(* Properties of the registry (SpecRegistry)                               *)
(***************************************************************************)
\* the names a registration lists: full_name and every one of more_names
NamedBy(c) == {c.full_name} \cup Range(c.more_names)

\* C1: function_checker(full_name, *more_names)(f) leaves the registry mapping
\* full_name and each of more_names to f, leaves every other entry as it
\* was, and returns f itself.
C1_RegisterEffect ==
    regcall.kind = "register" =>
        /\ \A n \in NamedBy(regcall) :
                n \in DOMAIN FUNCTION_CHECKERS /\ FUNCTION_CHECKERS[n] = regcall.f
        /\ \A n \in ((DOMAIN FUNCTION_CHECKERS) \cup (DOMAIN regcall.before))
                        \ NamedBy(regcall) :
                /\ n \in DOMAIN FUNCTION_CHECKERS
                /\ n \in DOMAIN regcall.before
                /\ FUNCTION_CHECKERS[n] = regcall.before[n]
        /\ regcall.ret = regcall.f

\* a registration with an alias that overwrites one entry and leaves another,
\* held by a different checker, alone
C1_Witness ==
    /\ regcall.kind = "register"
    /\ Len(regcall.more_names) = 1
    /\ regcall.more_names[1] # regcall.full_name
    /\ regcall.more_names[1] \in DOMAIN regcall.before
    /\ regcall.before[regcall.more_names[1]] # regcall.f
    /\ \E n \in (DOMAIN regcall.before) \ NamedBy(regcall) :
            regcall.before[n] # regcall.f

\* C2: a lookup returns the checker of the most recent registration that
\* listed the name and nothing for a name never registered; registering the
\* same names with the same checker once more leaves the registry as it is.
C2_LastWinsIdempotent ==
    /\ \A n \in Names :
            /\ n \in DOMAIN FUNCTION_CHECKERS <=> lastWriter[n] # Unregistered
            /\ lookup(FUNCTION_CHECKERS, n) =
                    IF lastWriter[n] = Unregistered THEN None ELSE lastWriter[n]
    /\ regcall.kind = "register" =>
            function_checker(FUNCTION_CHECKERS, regcall.full_name,
                             regcall.more_names, regcall.f).reg = FUNCTION_CHECKERS

\* a registration that replaced an earlier, different checker of a name
\* while another name has never been registered
C2_Witness ==
    /\ regcall.kind = "register"
    /\ regcall.full_name \in DOMAIN regcall.before
    /\ regcall.before[regcall.full_name] \notin {regcall.f, None}
    /\ regcall.f # None
    /\ \E n \in Names : lastWriter[n] = Unregistered

(***************************************************************************)
(* Properties of the plugin (Spec)                                         *)
(***************************************************************************)
HookDone(t) == threads[t].pc = "done" /\ threads[t].via = "hook"

\* C3: get_function_hook returns nothing for every name, registered ones
\* included, so the host invokes no checker and every call keeps its
\* default return type.
C3_HookAlwaysMisses ==
    \A t \in Threads :
        /\ (threads[t].pc \in {"looked_up", "done"} /\ threads[t].via = "hook")
                => threads[t].hook = None
        /\ HookDone(t) =>
                /\ threads[t].invoked = None
                /\ threads[t].result.type = threads[t].ctx.default_return_type
                /\ threads[t].result.diags = << >>

\* the host has analysed a call of 'list', which the registry holds
C3_Witness ==
    \E t \in Threads :
        /\ HookDone(t)
        /\ threads[t].fullname = "list"
        /\ "list" \in DOMAIN FUNCTION_CHECKERS
        /\ FUNCTION_CHECKERS["list"] = "check_add_function"

\* C4: analysing Annotated[int, meter] + Annotated[int, second] through the
\* function-call hook emits a unit-mismatch diagnostic, and the analysis
\* goes on.
C4_MismatchDiagnosed ==
    \A t \in Threads :
        (HookDone(t) /\ threads[t].ctx.arg_units = << "meter", "second" >>)
            => /\ threads[t].result.diags # << >>
               /\ ~threads[t].result.raised

\* C5: once plugin.py is loaded the registry is exactly
\* {'list' -> check_add_function}, whatever calls of plugin(),
\* get_function_hook() and check_add_function() follow, in any interleaving.
C5_RegistryFrozen ==
    phase = "loaded" =>
        FUNCTION_CHECKERS = [n \in {"list"} |-> "check_add_function"]

\* plugin() was called, one thread went through the hook and another called
\* the checker, and a third analysis is under way
C5_Witness ==
    /\ phase = "loaded"
    /\ plugin_ret = "QuantityPlugin"
    /\ \E t, u \in Threads :
            /\ t # u
            /\ threads[t].pc = "looked_up"
            /\ threads[u].pc = "done"
            /\ threads[u].via = "direct"

\* C6: a checker invoked with any context returns a type, for
\* check_add_function the context's default return type, and does not raise;
\* a call-site analysis ends in success or in a diagnostic it recovered from.
C6_CheckerReturnsType ==
    \A t \in Threads :
        threads[t].pc = "done" =>
            /\ threads[t].result.type \in Types
            /\ ~threads[t].result.raised
            /\ outcome_of(threads[t].result) \in {"success", "diagnostic_recovered"}
            /\ threads[t].invoked = "check_add_function" =>
                    threads[t].result.type = threads[t].ctx.default_return_type

\* check_add_function has been invoked and has returned
C6_Witness ==
    \E t \in Threads :
        /\ threads[t].pc = "done"
        /\ threads[t].invoked = "check_add_function"
        /\ threads[t].ctx.default_return_type = "float"

\* C7: when an operand of the addition carries no unit, no diagnostic is
\* emitted and the default return type passes through.
C7_FailOpen ==
    \A t \in Threads :
        (threads[t].pc = "done" /\ None \in Range(threads[t].ctx.arg_units))
            => /\ threads[t].result.diags = << >>
               /\ threads[t].result.type = threads[t].ctx.default_return_type

\* a plain integer added to an integer annotated with meter, analysed
\* through the hook
C7_Witness ==
    \E t \in Threads :
        /\ HookDone(t)
        /\ threads[t].ctx.arg_units = << None, "meter" >>

(***************************************************************************)
(* Properties of the harness (SpecHarness)                                 *)
(***************************************************************************)
MypyMarkers == SelectSeq(markers, LAMBDA m : m.name \in {"mypy", "mypy_xfail"})
HasMypyMarker == MypyMarkers # << >>

\* the marker that governs the item: collection handles the mypy markers
\* first and the mypy_xfail markers after them, each in iteration order
GoverningMarker ==
    LET xs == iter_markers(markers, "mypy_xfail")
        ms == iter_markers(markers, "mypy")
    IN IF xs # << >> THEN xs[Len(xs)] ELSE ms[Len(ms)]

SomeMessageMissing(stdout) ==
    \E i \in 1..Len(GoverningMarker.args) :
        ~IsSubstring(GoverningMarker.args[i], stdout)

CallReported == hpc = "teardown" /\ report.kind = "report"

\* the status a marker expects of mypy
ExpectedBy(m) == IF m.name = "mypy" THEN 0 ELSE 1

\* C8: for an item with a mypy marker (expected status 0) or a mypy_xfail
\* marker (expected status 1) and a mypy exit status other than 2, the call
\* report is 'failed' exactly when the status differs from the expected one
\* or some expected message, a positional argument of the marker, is not a
\* substring of stdout; and a set fail flag always comes with a stored
\* message. Stated for an item with one such marker, where the claim leaves
\* no doubt about the status and the messages expected.
C8_Verdict ==
    /\ (CallReported /\ Len(MypyMarkers) = 1 /\ mypy_result.kind = "ran"
            /\ mypy_result.exit_status # 2)
        => (report.outcome = "failed" <=>
                \/ mypy_result.exit_status # ExpectedBy(MypyMarkers[1])
                \/ /\ mypy_result.exit_status = ExpectedBy(MypyMarkers[1])
                   /\ \E i \in 1..Len(MypyMarkers[1].args) :
                        ~IsSubstring(MypyMarkers[1].args[i], mypy_result.stdout))
    /\ DictGet(stash, "fail", FALSE) => "msg" \in DOMAIN stash

\* C9: when mypy exits with status 2, run_mypy raises a usage error whatever
\* status was expected; the fail flag stays False, no message is stored and
\* no expected message is looked for.
C9_PanicRaises ==
    (mypy_result.kind = "ran" /\ mypy_result.exit_status = 2)
        => /\ call.when = "call" => call.excinfo = "UsageError"
           /\ "fail" \in DOMAIN stash
           /\ stash["fail"] = FALSE
           /\ "msg" \notin DOMAIN stash
           /\ trace.examined = 0

\* mypy exits with 2 for an item expecting 1 whose expected message is not
\* in stdout
C9_Witness ==
    /\ mypy_result.kind = "ran"
    /\ mypy_result.exit_status = 2
    /\ stash["expect"] = 1
    /\ SomeMessageMissing(mypy_result.stdout)
    /\ hpc = "teardown"

\* C10: pytest_runtest_call runs mypy for an item exactly when the item has
\* a marker named mypy or mypy_xfail; an item with neither has no expected
\* status stashed, is run through item.runtest(), and its fail flag is
\* never set.
C10_Routing ==
    /\ trace.ran # None => (trace.ran = "run_mypy" <=> HasMypyMarker)
    /\ (hpc # "collect" /\ ~HasMypyMarker) =>
            /\ "expect" \notin DOMAIN stash
            /\ ~DictGet(stash, "fail", FALSE)
            /\ mypy_result = NoMypy
    /\ (trace.ran # None /\ ~HasMypyMarker) => trace.ran = "runtest"

\* an item marked mypy_testing only, as test_add is, has been run and reported
C10_Witness ==
    /\ Len(markers) = 1
    /\ markers[1].name = "mypy_testing"
    /\ trace.ran = "runtest"
    /\ hpc = "done"

====
